---- MODULE Spec2Model ----
(***************************************************************************)
(* Model of the speech recognition hook (useSpeechRecognition) and of the  *)
(* page that drives it.                                                     *)
(*                                                                          *)
(* Strings are sequences of tokens; the token " " is white space and every  *)
(* other token is a run of text without leading or trailing white space.   *)
(*                                                                          *)
(* React state: the variables finalTranscript, interimTranscript,           *)
(* isListening, error and settings hold the values of the last render, the  *)
(* values every closure of that render reads.  A set-state call only adds   *)
(* an update to the queue of its state (pending); Render applies the queues *)
(* in order, computes the hook's return value and runs the effect when the  *)
(* settings changed.  Refs are written at once.                             *)
(***************************************************************************)
EXTENDS Naturals, Sequences, FiniteSets, TLC

\* ---------------------------------------------------------------- bounds
MaxInstances == 2    \* capability instances the effect may create
MaxResults == 2      \* length of the logical result list of one session
MaxBatches == 2      \* result batches the platform delivers
MaxUnrendered == 0   \* updates of one state that may wait when a handler runs
MaxUtterances == 1   \* utterances the synthesis capability holds at a time

\* ---------------------------------------------------------------- values
WS == " "
Empty == <<>>

\* alternative-0 transcripts the platform may deliver
Parts == { <<"hello">>, <<"how are you">>, <<WS>> }

ErrNull == [error |-> "null", message |-> "null"]
Err(code, msg) == [error |-> code, message |-> msg]

DefaultErrorMessage == "An unknown speech recognition error occurred."
ErrorCodes == {"no-speech"}
ErrorMessages == {"", "No speech was detected."}

defaultSettings ==
    [lang |-> "en-US", continuous |-> TRUE, interimResults |-> TRUE, maxAlternatives |-> 1]

\* partial settings a caller may pass to updateSettings
Partials == { [lang |-> "es-ES"], [interimResults |-> FALSE] }

\* the transcripts of the runs that replace the capability instance
PageParts == { <<"hello">> }

\* values the controls of the settings panel can produce
PagePartials == Partials \cup { [lang |-> "en-US"], [interimResults |-> TRUE] }

Instances == 1..MaxInstances

VARIABLES
    settings, finalTranscript, interimTranscript, isListening, error,
    recognitionRef, latestInterimRef,
    pending, transcript,
    showSettings,
    supported, status, stopRequested, config, results, resultIndex, batches, nextInst,
    commits, lastEvent, undisturbed,
    synthSettings, isSpeaking, synthError, synthPending, synthSupported, utterances,
    lastSynthEvent, availableVoices, cancelled, textToSpeak,
    altRuns

hookVars == <<settings, finalTranscript, interimTranscript, isListening, error>>
refVars == <<recognitionRef, latestInterimRef>>
platformVars == <<supported, status, stopRequested, config, results, resultIndex, batches, nextInst>>
ghostVars == <<commits, lastEvent, undisturbed>>
recVars == <<hookVars, refVars, pending, transcript, showSettings, platformVars, ghostVars>>
\* useSpeechSynthesis: its state, its update queues, the utterances the platform holds
synthVars == <<synthSettings, isSpeaking, synthError, synthPending, synthSupported,
               utterances, lastSynthEvent, availableVoices, cancelled, textToSpeak>>
\* two runs of the result handler side by side
altVars == <<altRuns>>
vars == <<recVars, synthVars, altVars>>

\* ---------------------------------------------------------------- strings
RECURSIVE TrimStart(_)
TrimStart(s) == IF s # Empty /\ Head(s) = WS THEN TrimStart(Tail(s)) ELSE s

RECURSIVE TrimEnd(_)
TrimEnd(s) ==
    IF s # Empty /\ s[Len(s)] = WS THEN TrimEnd(SubSeq(s, 1, Len(s) - 1)) ELSE s

\* a string left as it is
TrimNot(s) == s

\* String.prototype.trim
Trim(s) == TrimEnd(TrimStart(s))

\* JavaScript truthiness of a string
Truthy(s) == s # Empty

\* ---------------------------------------------------------------- settings
\* an update that stores the partial alone: { ...newSettings }
MergeSettingsNamedOnly(prev, newSettings) ==
    [f \in DOMAIN prev \cap DOMAIN newSettings |-> newSettings[f]]

\* { ...prev, ...newSettings }
MergeSettings(prev, newSettings) ==
    [f \in DOMAIN prev |-> IF f \in DOMAIN newSettings THEN newSettings[f] ELSE prev[f]]

RECURSIVE ApplySettingsQueue(_, _)
ApplySettingsQueue(prev, q) ==
    IF q = <<>> THEN prev
    ELSE ApplySettingsQueue(MergeSettings(prev, Head(q)), Tail(q))

\* ---------------------------------------------------------------- update queues
NoPending == [final |-> <<>>, interim |-> <<>>, isListening |-> <<>>, error |-> <<>>,
              settings |-> <<>>]

\* updates of finalTranscript
SetFinal(s) == [op |-> "set", val |-> s]
\* prev => (prev + currentSessionFinal).trim()
AppendFinal(s) == [op |-> "append", val |-> s]
\* prev => (prev + ' ' + latestInterimRef.current).trim(), the ref read when the updater runs
AppendRefFinal == [op |-> "appendRef", val |-> Empty]
\* the same updater run at the call, the ref read before the handler clears it
AppendHeldFinal(s) == [op |-> "appendHeld", val |-> s]

ApplyFinalUpdate(prev, u, ref) ==
    CASE u.op = "set" -> u.val
      [] u.op = "append" -> Trim(prev \o u.val)
      [] u.op = "appendRef" -> Trim(prev \o <<WS>> \o ref)
      [] u.op = "appendHeld" -> Trim(prev \o <<WS>> \o u.val)

RECURSIVE ApplyFinalQueue(_, _, _)
ApplyFinalQueue(prev, q, ref) ==
    IF q = <<>> THEN prev
    ELSE ApplyFinalQueue(ApplyFinalUpdate(prev, Head(q), ref), Tail(q), ref)

\* a queue of plain values: the last one wins
ApplySetQueue(prev, q) == IF q = <<>> THEN prev ELSE q[Len(q)]

HasPending ==
    \/ pending.final # <<>>
    \/ pending.interim # <<>>
    \/ pending.isListening # <<>>
    \/ pending.error # <<>>
    \/ pending.settings # <<>>

Enq(p, field, u) == [p EXCEPT ![field] = Append(@, u)]

\* React renders before a queue grows beyond the bound
CanRun == \A f \in DOMAIN pending : Len(pending[f]) <= MaxUnrendered

\* a step of a handler: no queue shrinks (a render empties the queues it applies)
HandlerStep == \A f \in DOMAIN pending : Len(pending'[f]) >= Len(pending[f])

\* the state the next render commits: the queues applied to the rendered state
FlushedFinal == ApplyFinalQueue(finalTranscript, pending.final, latestInterimRef)
FlushedInterim == ApplySetQueue(interimTranscript, pending.interim)
FlushedListening == ApplySetQueue(isListening, pending.isListening)
FlushedError == ApplySetQueue(error, pending.error)
FlushedSettings == ApplySettingsQueue(settings, pending.settings)

\* a return value that joins the two transcripts without the separating space
HookTranscriptNoSpace(final, interim) == Trim(final \o interim)

\* transcript: (finalTranscript + ' ' + interimTranscript).trim()
HookTranscript(final, interim) == Trim(final \o <<WS>> \o interim)

\* ---------------------------------------------------------------- the capability
\* a recognition result: isFinal and its alternatives, alternative 0 first
ResultVals(parts, interimResults) ==
    [isFinal : IF interimResults THEN BOOLEAN ELSE {TRUE}, alts : { <<p>> : p \in parts }]

\* a session runs on the instance from an accepted start() to its end notification
Started(i) == status[i] \in {"starting", "active", "ending", "errored"}

\* the results of a list one batch later: a final result never changes, an interim
\* result may change its text and may become final
RECURSIVE Revised(_, _)
Revised(old, vals) ==
    IF old = <<>> THEN { <<>> }
    ELSE { <<h>> \o t : h \in (IF Head(old).isFinal THEN { Head(old) } ELSE vals),
                        t \in Revised(Tail(old), vals) }

\* the result list after one more batch: the results so far, revised, and at most
\* one new result; without interimResults every result is final
NextResultLists(old, parts, maxLen, interimResults) ==
    LET vals == ResultVals(parts, interimResults)
        added == IF Len(old) < maxLen THEN { <<r>> : r \in vals } ELSE {}
    IN { r \o a : r \in Revised(old, vals), a \in { <<>> } \cup added }

\* event.resultIndex: no result below it changed; results at or above it may be
\* results an earlier batch already delivered
ResultIndexes(old, new) ==
    { k \in 0..Len(new) : \A j \in 1..k : j <= Len(old) /\ new[j] = old[j] }

\* recognition.start(): TRUE when it is accepted, FALSE when it throws InvalidStateError
StartAccepted(i) == status[i] = "idle"

\* a stop() the capability ignores
StopCalledIgnored(i) == stopRequested

\* recognition.stop() on instance i: the session delivers at most one more batch,
\* then ends
StopCalled(i) == [stopRequested EXCEPT ![i] = Started(i)]

\* ---------------------------------------------------------------- onresult
\* a loop that adds every result, final or not, to the interim text
RECURSIVE ResultLoopAllInterim(_, _, _, _)
ResultLoopAllInterim(res, i, currentSessionFinal, currentSessionInterim) ==
    IF ~(i < Len(res))
    THEN [final |-> currentSessionFinal, interim |-> currentSessionInterim]
    ELSE LET transcriptPart == res[i + 1].alts[1]
         IN ResultLoopAllInterim(res, i + 1,
                IF res[i + 1].isFinal THEN currentSessionFinal \o transcriptPart \o <<WS>>
                ELSE currentSessionFinal,
                currentSessionInterim \o transcriptPart)

\* a loop that reads the last alternative of each result
RECURSIVE ResultLoopLastAlternative(_, _, _, _)
ResultLoopLastAlternative(res, i, currentSessionFinal, currentSessionInterim) ==
    IF ~(i < Len(res))
    THEN [final |-> currentSessionFinal, interim |-> currentSessionInterim]
    ELSE LET result == res[i + 1]
             transcriptPart == result.alts[Len(result.alts)]
         IN IF result.isFinal
            THEN ResultLoopLastAlternative(res, i + 1,
                     currentSessionFinal \o transcriptPart \o <<WS>>, currentSessionInterim)
            ELSE ResultLoopLastAlternative(res, i + 1, currentSessionFinal,
                     currentSessionInterim \o transcriptPart)

\* for (let i = event.resultIndex; i < event.results.length; ++i), i counted from 0
RECURSIVE ResultLoop(_, _, _, _)
ResultLoop(res, i, currentSessionFinal, currentSessionInterim) ==
    IF ~(i < Len(res))
    THEN [final |-> currentSessionFinal, interim |-> currentSessionInterim]
    ELSE LET result == res[i + 1]
             transcriptPart == result.alts[1]
         IN IF result.isFinal
            THEN ResultLoop(res, i + 1, currentSessionFinal \o transcriptPart \o <<WS>>,
                            currentSessionInterim)
            ELSE ResultLoop(res, i + 1, currentSessionFinal,
                            currentSessionInterim \o transcriptPart)

\* a handler that appends the batch's interim text to the text it already holds
InterimOfBatchAccumulating(cur) == Trim(latestInterimRef \o cur.interim)

\* the interim text the result handler stores
InterimOfBatch(cur) == Trim(cur.interim)

\* a handler that replaces the final transcript by the batch's final text
FinalUpdateOfBatchReplacing(cur) == SetFinal(Trim(cur.final))

\* the update of the final transcript the result handler queues
FinalUpdateOfBatch(cur) == AppendFinal(cur.final)

\* how often each result was added to the final transcript: 0, 1, or 2 for more than once
CountCommits(old, res, k) ==
    [j \in 1..Len(res) |->
        LET before == IF j <= Len(old) THEN old[j] ELSE 0
        IN IF j > k /\ res[j].isFinal THEN (IF before = 0 THEN 1 ELSE 2) ELSE before]

\* result[0].transcript of a result without alternatives: result[0] is undefined and
\* reading its transcript throws a TypeError, in the loop, before any update is made
ResultLoopThrows(res, k) == \E j \in (k + 1)..Len(res) : res[j].alts = <<>>

OnResultBatch(i, new, k) ==
    /\ results' = [results EXCEPT ![i] = new]
    /\ resultIndex' = [resultIndex EXCEPT ![i] = k]
    /\ status' = [status EXCEPT ![i] = IF stopRequested[i] THEN "ending" ELSE @]
    /\ batches' = batches + 1
    /\ IF ResultLoopThrows(new, k)
       THEN /\ UNCHANGED <<pending, latestInterimRef>>
            /\ commits' = [commits EXCEPT ![i] = CountCommits(@, new, Len(new))]
            /\ lastEvent' = [type |-> "resultThrew", inst |-> i]
       ELSE /\ LET cur == ResultLoop(new, k, Empty, Empty)
               IN /\ pending' = Enq(Enq(Enq(pending, "final", FinalUpdateOfBatch(cur)),
                                        "interim", InterimOfBatch(cur)),
                                    "error", ErrNull)
                  /\ latestInterimRef' = InterimOfBatch(cur)
            /\ commits' = [commits EXCEPT ![i] = CountCommits(@, new, k)]
            /\ lastEvent' = [type |-> "result", inst |-> i]
    /\ undisturbed' = (undisturbed /\ i = recognitionRef)
    /\ UNCHANGED <<synthVars, altVars>>
    /\ UNCHANGED <<hookVars, recognitionRef, transcript, showSettings,
                   supported, stopRequested, config, nextInst>>

\* the platform delivers a batch with transcripts over parts to instance i
OnResult(i, parts, maxLen) ==
    /\ CanRun
    /\ status[i] = "active"
    /\ batches < MaxBatches
    /\ \E new \in NextResultLists(results[i], parts, maxLen, config[i].interimResults) :
          \E k \in ResultIndexes(results[i], new) : OnResultBatch(i, new, k)

\* the platform delivers a batch whose new result has no alternatives
OnResultNoAlternatives(i, maxLen) ==
    /\ CanRun
    /\ status[i] = "active"
    /\ batches < MaxBatches
    /\ Len(results[i]) < maxLen
    /\ \E isFinal \in (IF config[i].interimResults THEN BOOLEAN ELSE {TRUE}) :
          OnResultBatch(i, results[i] \o << [isFinal |-> isFinal, alts |-> <<>>] >>,
                        Len(results[i]))

\* a batch the platform still delivers for a session after it reported an error for
\* it, before the end notification
OnLateResult(i, parts, maxLen) ==
    /\ CanRun
    /\ status[i] = "errored"
    /\ batches < MaxBatches
    /\ \E new \in NextResultLists(results[i], parts, maxLen, config[i].interimResults) :
          \E k \in ResultIndexes(results[i], new) : OnResultBatch(i, new, k)

\* ---------------------------------------------------------------- onstart
OnStartUpdates(p) ==
    Enq(Enq(Enq(Enq(p, "isListening", TRUE), "error", ErrNull),
            "final", SetFinal(Empty)), "interim", Empty)

OnStart(i) ==
    /\ CanRun
    /\ status[i] = "starting"
    /\ status' = [status EXCEPT ![i] = "active"]
    /\ pending' = OnStartUpdates(pending)
    /\ latestInterimRef' = Empty
    /\ lastEvent' = [type |-> "start", inst |-> i]
    /\ undisturbed' = (undisturbed /\ i = recognitionRef)
    /\ UNCHANGED <<synthVars, altVars>>
    /\ UNCHANGED <<hookVars, recognitionRef, transcript, showSettings,
                   supported, stopRequested, config, results, resultIndex, batches,
                   nextInst, commits>>

\* ---------------------------------------------------------------- onend
\* the update of the final transcript the end handler queues: its updater reads
\* latestInterimRef.current when React runs it, at the call (atCall) or at the
\* next render, after the handler has cleared the ref
EndFinalUpdate(atCall, ref) == IF atCall THEN AppendHeldFinal(ref) ELSE AppendRefFinal

\* an end handler that empties the transcripts as the error handler does
OnEndUpdatesClearing(p, atCall, ref) ==
    Enq(Enq(Enq(p, "isListening", FALSE), "final", SetFinal(Empty)), "interim", Empty)

OnEndUpdates(p, atCall, ref) ==
    LET p1 == Enq(p, "isListening", FALSE)
        p2 == IF Truthy(ref) THEN Enq(p1, "final", EndFinalUpdate(atCall, ref)) ELSE p1
    IN Enq(p2, "interim", Empty)

OnEnd(i, atCall) ==
    /\ CanRun
    /\ \/ status[i] \in {"active", "ending", "errored"}
       \/ status[i] = "starting" /\ stopRequested[i]
    /\ status' = [status EXCEPT ![i] = "idle"]
    /\ stopRequested' = [stopRequested EXCEPT ![i] = FALSE]
    /\ results' = [results EXCEPT ![i] = <<>>]
    /\ resultIndex' = [resultIndex EXCEPT ![i] = 0]
    /\ commits' = [commits EXCEPT ![i] = <<>>]
    /\ pending' = OnEndUpdates(pending, atCall, latestInterimRef)
    /\ latestInterimRef' = Empty
    /\ lastEvent' = [type |-> "end", inst |-> i]
    /\ undisturbed' = FALSE
    /\ UNCHANGED <<synthVars, altVars>>
    /\ UNCHANGED <<hookVars, recognitionRef, transcript, showSettings,
                   supported, config, batches, nextInst>>

\* ---------------------------------------------------------------- onerror
\* a handler that stores event.message as it is, empty or not
ErrorMessageRaw(msg) == msg

\* event.message || 'An unknown speech recognition error occurred.'
ErrorMessage(msg) == IF msg # "" THEN msg ELSE DefaultErrorMessage

OnErrorUpdates(p, code, msg) ==
    Enq(Enq(Enq(Enq(p, "isListening", FALSE), "error", Err(code, ErrorMessage(msg))),
            "final", SetFinal(Empty)), "interim", Empty)

OnError(i, code, msg) ==
    /\ CanRun
    /\ status[i] \in {"starting", "active"}
    /\ status' = [status EXCEPT ![i] = "errored"]
    /\ pending' = OnErrorUpdates(pending, code, msg)
    /\ latestInterimRef' = Empty
    /\ lastEvent' = [type |-> "error", inst |-> i, code |-> code, message |-> msg]
    /\ undisturbed' = FALSE
    /\ UNCHANGED <<synthVars, altVars>>
    /\ UNCHANGED <<hookVars, recognitionRef, transcript, showSettings,
                   supported, stopRequested, config, results, resultIndex, batches,
                   nextInst, commits>>

\* ---------------------------------------------------------------- startListening
NoEvent(t) == [type |-> t, inst |-> 0]

\* a start request that keeps the final transcript of the previous session
StartResetUpdatesKeepFinal(p) == Enq(Enq(p, "interim", Empty), "error", ErrNull)

\* the try block before recognition.start()
StartResetUpdates(p) ==
    Enq(Enq(Enq(p, "final", SetFinal(Empty)), "interim", Empty), "error", ErrNull)

\* if (recognitionRef.current && !isListening): the buffers are reset, then start() is
\* called; when it throws, the catch block stores the exception's message
StartListeningTry ==
    /\ recognitionRef # 0 /\ ~isListening
    /\ latestInterimRef' = Empty
    /\ IF StartAccepted(recognitionRef)
       THEN /\ pending' = StartResetUpdates(pending)
            /\ status' = [status EXCEPT ![recognitionRef] = "starting"]
            /\ results' = [results EXCEPT ![recognitionRef] = <<>>]
            /\ resultIndex' = [resultIndex EXCEPT ![recognitionRef] = 0]
            /\ UNCHANGED batches
            /\ commits' = [commits EXCEPT ![recognitionRef] = <<>>]
            /\ lastEvent' = [type |-> "startAccepted", inst |-> recognitionRef]
            /\ undisturbed' = TRUE
       ELSE /\ pending' = Enq(StartResetUpdates(pending), "error",
                              Err("RecognitionInProgress", "InvalidStateError"))
            /\ lastEvent' = [type |-> "startThrew", inst |-> recognitionRef]
            /\ undisturbed' = FALSE
            /\ UNCHANGED <<status, results, resultIndex, batches, commits>>

\* a rejection that resets the buffers like an accepted start request
StartListeningAlreadyResets ==
    /\ ~(recognitionRef # 0 /\ ~isListening)
    /\ isListening
    /\ pending' = Enq(StartResetUpdates(pending), "error",
                      Err("AlreadyListening", "Recognition is already active."))
    /\ latestInterimRef' = Empty
    /\ lastEvent' = NoEvent("startAlready")
    /\ undisturbed' = FALSE
    /\ UNCHANGED <<status, results, resultIndex, batches, commits>>

\* else if (isListening)
StartListeningAlready ==
    /\ ~(recognitionRef # 0 /\ ~isListening)
    /\ isListening
    /\ pending' = Enq(pending, "error", Err("AlreadyListening", "Recognition is already active."))
    /\ lastEvent' = NoEvent("startAlready")
    /\ undisturbed' = FALSE
    /\ UNCHANGED <<latestInterimRef, status, results, resultIndex, batches, commits>>

\* a start request without a capability that reports listening all the same
StartListeningNotInitializedListens ==
    /\ ~(recognitionRef # 0 /\ ~isListening)
    /\ ~isListening
    /\ pending' = Enq(Enq(pending, "isListening", TRUE), "error",
                      Err("NotInitialized",
                          "Speech Recognition not initialized. Browser might not support it."))
    /\ lastEvent' = NoEvent("startNotInitialized")
    /\ undisturbed' = FALSE
    /\ UNCHANGED <<latestInterimRef, status, results, resultIndex, batches, commits>>

\* an effect that configures the instance with the default settings
InstanceConfigDefault(newSettings) == defaultSettings

\* recognitionRef.current.continuous = settings.continuous, and so on
InstanceConfig(newSettings) == newSettings

\* else
StartListeningNotInitialized ==
    /\ ~(recognitionRef # 0 /\ ~isListening)
    /\ ~isListening
    /\ pending' = Enq(pending, "error",
                      Err("NotInitialized",
                          "Speech Recognition not initialized. Browser might not support it."))
    /\ lastEvent' = NoEvent("startNotInitialized")
    /\ undisturbed' = FALSE
    /\ UNCHANGED <<latestInterimRef, status, results, resultIndex, batches, commits>>

StartListening ==
    /\ CanRun
    /\ \/ StartListeningTry
       \/ StartListeningAlready
       \/ StartListeningNotInitialized
    /\ UNCHANGED <<synthVars, altVars>>
    /\ UNCHANGED <<hookVars, recognitionRef, transcript, showSettings,
                   supported, stopRequested, config, nextInst>>

\* ---------------------------------------------------------------- stopListening
StopListening ==
    /\ CanRun
    /\ recognitionRef # 0 /\ isListening
    /\ stopRequested' = StopCalled(recognitionRef)
    /\ lastEvent' = NoEvent("stop")
    /\ UNCHANGED undisturbed
    /\ UNCHANGED <<synthVars, altVars>>
    /\ UNCHANGED <<hookVars, refVars, pending, transcript, showSettings,
                   supported, status, config, results, resultIndex, batches, nextInst,
                   commits>>

\* ---------------------------------------------------------------- updateSettings
UpdateSettings(newSettings) ==
    /\ CanRun
    /\ supported => nextInst <= MaxInstances
    /\ pending' = Enq(pending, "settings", newSettings)
    /\ lastEvent' = NoEvent("updateSettings")
    /\ undisturbed' = FALSE
    /\ UNCHANGED <<synthVars, altVars>>
    /\ UNCHANGED <<hookVars, refVars, transcript, showSettings, platformVars, commits>>

\* ---------------------------------------------------------------- render and effect
BrowserNotSupported ==
    Err("BrowserNotSupported", "Web Speech API is not supported by your browser.")

\* the effect of [settings]: the cleanup of the previous run stops the instance the
\* ref holds, then the body creates and configures a new instance, or stores the
\* error when the browser has no recognition capability
RunEffect(newSettings) ==
    /\ stopRequested' = IF recognitionRef # 0 THEN StopCalled(recognitionRef)
                        ELSE stopRequested
    /\ IF ~supported
       THEN /\ pending' = Enq(NoPending, "error", BrowserNotSupported)
            /\ UNCHANGED <<recognitionRef, status, config, nextInst>>
       ELSE /\ pending' = NoPending
            /\ recognitionRef' = nextInst
            /\ status' = [status EXCEPT ![nextInst] = "idle"]
            /\ config' = [config EXCEPT ![nextInst] = InstanceConfig(newSettings)]
            /\ nextInst' = nextInst + 1

Render ==
    /\ HasPending
    /\ finalTranscript' = FlushedFinal
    /\ interimTranscript' = FlushedInterim
    /\ isListening' = FlushedListening
    /\ error' = FlushedError
    /\ settings' = FlushedSettings
    /\ transcript' = HookTranscript(FlushedFinal, FlushedInterim)
    /\ IF pending.settings # <<>>
       THEN RunEffect(FlushedSettings)
       ELSE /\ pending' = NoPending
            /\ UNCHANGED <<recognitionRef, status, stopRequested, config, nextInst>>
    /\ UNCHANGED <<synthVars, altVars>>
    /\ UNCHANGED <<latestInterimRef, showSettings, supported, results, resultIndex,
                   batches, ghostVars>>

\* ---------------------------------------------------------------- the page
\* disabled={!!recognitionError && !isListening}
StartStopDisabled == error # ErrNull /\ ~isListening

\* onClick={isListening ? stopListening : startListening}
ClickStartStop ==
    /\ ~StartStopDisabled
    /\ IF isListening THEN StopListening ELSE StartListening

\* onClick={() => setShowSettings(!showSettings)}
ToggleShowSettings ==
    /\ CanRun
    /\ showSettings' = ~showSettings
    /\ UNCHANGED <<synthVars, altVars>>
    /\ UNCHANGED <<hookVars, refVars, pending, transcript, platformVars, ghostVars>>

\* the recognition controls of the settings panel: disabled={isListening}
ChangeRecognitionSetting(newSettings) ==
    /\ showSettings
    /\ ~isListening
    /\ \E f \in DOMAIN newSettings : settings[f] # newSettings[f]
    /\ UpdateSettings(newSettings)

\* ---------------------------------------------------------------- two runs
\* values of the maxAlternatives setting
MaxAlternativesChoices == { 1, 2 }

\* transcripts of the alternatives after alternative 0
OtherParts == { <<"hallo">> }

\* a run of the hook: its maxAlternatives setting, the result list of its session and
\* what it displays
NewRun(maxAlternatives) ==
    [maxAlternatives |-> maxAlternatives, results |-> <<>>,
     finalTranscript |-> Empty, interimTranscript |-> Empty, latestInterimRef |-> Empty,
     transcript |-> HookTranscript(Empty, Empty)]

\* the results without their alternatives after alternative 0
AlternativeZero(res) ==
    [j \in 1..Len(res) |-> [isFinal |-> res[j].isFinal, alts |-> << res[j].alts[1] >>]]

\* the result lists that add alternatives after alternative 0, as far as
\* maxAlternatives allows
RECURSIVE WithAlternatives(_, _)
WithAlternatives(res, maxAlternatives) ==
    IF res = <<>> THEN { <<>> }
    ELSE LET more == IF maxAlternatives > 1 THEN { <<q>> : q \in OtherParts } ELSE {}
         IN { << [Head(res) EXCEPT !.alts = @ \o extra] >> \o t :
                  extra \in { <<>> } \cup more,
                  t \in WithAlternatives(Tail(res), maxAlternatives) }

\* onresult and the render that follows it, in one run
RunOnResult(run, res, k) ==
    LET cur == ResultLoop(res, k, Empty, Empty)
        final == ApplyFinalUpdate(run.finalTranscript, FinalUpdateOfBatch(cur),
                                  run.latestInterimRef)
        interim == Trim(cur.interim)
    IN [run EXCEPT !.results = res,
                   !.finalTranscript = final,
                   !.interimTranscript = interim,
                   !.latestInterimRef = interim,
                   !.transcript = HookTranscript(final, interim)]

\* onstart and the render that follows it, in one run
RunOnStart(run) == NewRun(run.maxAlternatives)

\* a session starts in both runs
AltOnStart ==
    /\ altRuns # <<>>
    /\ \E r \in 1..Len(altRuns) : altRuns[r].results # <<>>
    /\ altRuns' = [r \in 1..Len(altRuns) |-> RunOnStart(altRuns[r])]
    /\ UNCHANGED <<recVars, synthVars>>

\* the same batch is delivered to both runs: the results agree in isFinal and in
\* alternative 0, the further alternatives are those of each run
AltOnResult(parts, maxLen) ==
    /\ altRuns # <<>>
    /\ batches < MaxBatches
    /\ batches' = batches + 1
    /\ LET old == AlternativeZero(altRuns[1].results)
       IN \E new \in NextResultLists(old, parts, maxLen, TRUE) :
          \E k \in ResultIndexes(old, new) :
          \E res1 \in WithAlternatives(new, altRuns[1].maxAlternatives) :
          \E res2 \in WithAlternatives(new, altRuns[2].maxAlternatives) :
              altRuns' = << RunOnResult(altRuns[1], res1, k), RunOnResult(altRuns[2], res2, k) >>
    /\ UNCHANGED <<hookVars, refVars, pending, transcript, showSettings, supported, status,
                   stopRequested, config, results, resultIndex, nextInst, ghostVars>>
    /\ UNCHANGED synthVars

\* ---------------------------------------------------------------- synthesis
\* numbers are counted in tenths: 8 is 0.8; NaN is the value no comparison orders
NaN == 0 - 1000
Numbers == { NaN, 0 - 5, 5, 150 }

defaultSynthSettings ==
    [lang |-> "en-US", rate |-> 8, pitch |-> 10, volume |-> 10, voiceName |-> ""]

\* partial settings a caller may pass to the synthesis updateSettings
SynthPartials == { [rate |-> 5], [rate |-> 150], [pitch |-> 0 - 5] }

\* the customSettings argument of speak; <<>> when it is not given
NoCustom == <<>>
SynthOverrides ==
    { NoCustom } \cup { [rate |-> n] : n \in Numbers } \cup { [pitch |-> n] : n \in Numbers }
                 \cup { [volume |-> n] : n \in Numbers }

SynthTexts == { "", "hi" }

\* the text the page has in its text area at first; it is not empty
InitialText == "hi"

\* getVoices() before the capability has loaded its voices
NoVoices == <<>>

NoSynthPending == [isSpeaking |-> <<>>, error |-> <<>>, settings |-> <<>>, voices |-> <<>>]

HasSynthPending ==
    \/ synthPending.isSpeaking # <<>>
    \/ synthPending.error # <<>>
    \/ synthPending.settings # <<>>
    \/ synthPending.voices # <<>>

SynthCanRun == \A f \in DOMAIN synthPending : Len(synthPending[f]) <= MaxUnrendered

SynthHandlerStep ==
    \A f \in DOMAIN synthPending : Len(synthPending'[f]) >= Len(synthPending[f])

FlushedSpeaking == ApplySetQueue(isSpeaking, synthPending.isSpeaking)
FlushedSynthError == ApplySetQueue(synthError, synthPending.error)
FlushedSynthSettings == ApplySettingsQueue(synthSettings, synthPending.settings)
FlushedVoices == ApplySetQueue(availableVoices, synthPending.voices)

\* Math.min and Math.max: NaN when an argument is NaN
MathMin(a, b) == IF a = NaN \/ b = NaN THEN NaN ELSE IF a < b THEN a ELSE b
MathMax(a, b) == IF a = NaN \/ b = NaN THEN NaN ELSE IF a > b THEN a ELSE b

\* an utterance that takes the settings as they are
ClampNot(lo, hi, x) == x

\* Math.max(lo, Math.min(hi, x))
Clamp(lo, hi, x) == MathMax(lo, MathMin(hi, x))

\* voices of the capability: name, language and default flag
Voice(name, lang, default) == [name |-> name, lang |-> lang, default |-> default]

\* utterance.voice of an utterance no voice was assigned to
NoVoice == Voice("null", "null", FALSE)

\* the voice lists getVoices() may return
VoiceLists ==
    { NoVoices, << Voice("Anna", "en-US", TRUE), Voice("Luis", "es-ES", FALSE) >> }

\* Array.prototype.find: the first voice of the list among those at the indexes
\* found, the indexes of the voices that satisfy the test
Find(voices, found) ==
    IF found = {} THEN NoVoice
    ELSE voices[CHOOSE j \in found : \A k \in found : j <= k]

\* a selection that takes the voice of the name whatever its language, and the
\* default voice whatever its language
SelectedVoiceAnyLanguage(finalSettings) ==
    IF finalSettings.voiceName # ""
    THEN Find(availableVoices,
              { j \in 1..Len(availableVoices) :
                    availableVoices[j].name = finalSettings.voiceName })
    ELSE Find(availableVoices,
              { j \in 1..Len(availableVoices) : availableVoices[j].default })

\* the voice speak assigns to the utterance: the voice of the name and the language
\* when a voice name is set, the default voice of the language when none is set
SelectedVoice(finalSettings) ==
    IF finalSettings.voiceName # ""
    THEN Find(availableVoices,
              { j \in 1..Len(availableVoices) :
                    /\ availableVoices[j].name = finalSettings.voiceName
                    /\ availableVoices[j].lang = finalSettings.lang })
    ELSE Find(availableVoices,
              { j \in 1..Len(availableVoices) :
                    /\ availableVoices[j].lang = finalSettings.lang
                    /\ availableVoices[j].default })

\* new SpeechSynthesisUtterance(text) with lang, rate, pitch, volume and voice
\* assigned; finalSettings records the settings the utterance was built from
Utterance(text, finalSettings) ==
    [text |-> text, lang |-> finalSettings.lang,
     rate |-> Clamp(1, 100, finalSettings.rate),
     pitch |-> Clamp(0, 20, finalSettings.pitch),
     volume |-> Clamp(0, 10, finalSettings.volume),
     voice |-> SelectedVoice(finalSettings),
     finalSettings |-> finalSettings]

\* rate, pitch and volume of an utterance are float attributes: assigning a value that
\* is not finite throws a TypeError
AssignmentThrows(u) == u.rate = NaN \/ u.pitch = NaN \/ u.volume = NaN

\* a speak request that builds the utterance from the default settings
FinalSettingsOfDefaults(custom) == MergeSettings(defaultSynthSettings, custom)

\* const finalSettings = { ...settings, ...customSettings }
FinalSettings(custom) == MergeSettings(synthSettings, custom)

UnsupportedOrNoText ==
    Err("UnsupportedOrNoText", "Speech Synthesis is not supported or no text provided.")

SynthEvent(t) == [type |-> t]
SpeakEvent(t, text, custom) == [type |-> t, text |-> text]

\* a speak request that submits the utterance whatever the text and the capability
SpeakRejectedSubmits(text, custom) ==
    /\ ~synthSupported \/ text = ""
    /\ Len(utterances) < MaxUtterances
    /\ synthPending' = Enq(Enq(synthPending, "isSpeaking", TRUE), "error", UnsupportedOrNoText)
    /\ utterances' = Append(utterances, Utterance(text, MergeSettings(synthSettings, custom)))
    /\ lastSynthEvent' = SpeakEvent("speakRejected", text, custom)

\* if (!('speechSynthesis' in window) || !text)
SpeakRejected(text, custom) ==
    /\ ~synthSupported \/ text = ""
    /\ synthPending' = Enq(synthPending, "error", UnsupportedOrNoText)
    /\ lastSynthEvent' = SpeakEvent("speakRejected", text, custom)
    /\ UNCHANGED utterances

\* the rest of speak: the utterance is built from { ...settings, ...customSettings }
\* and submitted, unless an assignment throws before anything is set; capacity is
\* the number of utterances the queue of the capability takes
SpeakSubmitWithin(text, custom, capacity) ==
    /\ ~(~synthSupported \/ text = "")
    /\ LET finalSettings == FinalSettings(custom)
           utterance == Utterance(text, finalSettings)
       IN IF AssignmentThrows(utterance)
          THEN /\ lastSynthEvent' = SpeakEvent("speakThrew", text, custom)
               /\ UNCHANGED <<synthPending, utterances>>
          ELSE /\ Len(utterances) < capacity
               /\ synthPending' = Enq(Enq(synthPending, "isSpeaking", TRUE), "error", ErrNull)
               /\ utterances' = Append(utterances, utterance)
               /\ lastSynthEvent' = SpeakEvent("speak", text, custom)

SpeakSubmit(text, custom) == SpeakSubmitWithin(text, custom, MaxUtterances)

SpeakWithin(text, custom, capacity) ==
    /\ SynthCanRun
    /\ \/ SpeakRejected(text, custom)
       \/ SpeakSubmitWithin(text, custom, capacity)
    /\ UNCHANGED <<synthSettings, isSpeaking, synthError, synthSupported>>
    /\ UNCHANGED <<availableVoices, cancelled, textToSpeak>>
    /\ UNCHANGED <<recVars, altVars>>

Speak(text, custom) ==
    /\ SynthCanRun
    /\ \/ SpeakRejected(text, custom)
       \/ SpeakSubmit(text, custom)
    /\ UNCHANGED <<synthSettings, isSpeaking, synthError, synthSupported>>
    /\ UNCHANGED <<availableVoices, cancelled, textToSpeak>>
    /\ UNCHANGED <<recVars, altVars>>

\* stopSpeaking: cancel() empties the queue of the capability.  A capability reports
\* the utterances it removed with error events, which no handler of the hook gets,
\* or (endEvents) with end events it delivers later; cancelled counts the end events
\* still to come
StopSpeakingOn(endEvents) ==
    /\ SynthCanRun
    /\ synthSupported
    /\ utterances' = <<>>
    /\ IF endEvents
       THEN /\ utterances # <<>>
            /\ cancelled + Len(utterances) <= MaxUtterances
            /\ cancelled' = cancelled + Len(utterances)
       ELSE UNCHANGED cancelled
    /\ synthPending' = Enq(synthPending, "isSpeaking", FALSE)
    /\ lastSynthEvent' = SynthEvent("stopSpeaking")
    /\ UNCHANGED <<synthSettings, isSpeaking, synthError, synthSupported>>
    /\ UNCHANGED <<availableVoices, textToSpeak>>
    /\ UNCHANGED <<recVars, altVars>>

StopSpeaking == StopSpeakingOn(FALSE)

\* utterance.onend of an utterance cancel() removed
OnCancelledUtteranceEnd ==
    /\ SynthCanRun
    /\ cancelled > 0
    /\ cancelled' = cancelled - 1
    /\ synthPending' = Enq(synthPending, "isSpeaking", FALSE)
    /\ lastSynthEvent' = SynthEvent("cancelledUtteranceEnd")
    /\ UNCHANGED <<synthSettings, isSpeaking, synthError, synthSupported, utterances>>
    /\ UNCHANGED <<availableVoices, textToSpeak>>
    /\ UNCHANGED <<recVars, altVars>>

\* utterance.onend: the capability finished the utterance at the head of its queue
OnUtteranceEnd ==
    /\ SynthCanRun
    /\ utterances # <<>>
    /\ utterances' = Tail(utterances)
    /\ synthPending' = Enq(synthPending, "isSpeaking", FALSE)
    /\ lastSynthEvent' = SynthEvent("utteranceEnd")
    /\ UNCHANGED <<synthSettings, isSpeaking, synthError, synthSupported>>
    /\ UNCHANGED <<availableVoices, cancelled, textToSpeak>>
    /\ UNCHANGED <<recVars, altVars>>

\* error codes the synthesis capability may report for an utterance
SynthErrorCodes == { "synthesis-failed" }

\* the capability reports an error for the utterance at the head of its queue: the
\* error event is fired at the utterance, and no end event follows it.  speak gives
\* the utterance an onend handler only; handleEnd and handleError are listeners of
\* window.speechSynthesis, which is not the target of the events of an utterance, so
\* no handler of the hook runs
OnUtteranceError(code) ==
    /\ SynthCanRun
    /\ utterances # <<>>
    /\ utterances' = Tail(utterances)
    /\ lastSynthEvent' = [type |-> "utteranceError", code |-> code]
    /\ UNCHANGED <<synthSettings, isSpeaking, synthError, synthPending, synthSupported>>
    /\ UNCHANGED <<availableVoices, cancelled, textToSpeak>>
    /\ UNCHANGED <<recVars, altVars>>

\* loadVoices, at the voiceschanged event of the capability
OnVoicesChanged(voices) ==
    /\ SynthCanRun
    /\ synthSupported
    /\ synthPending' = Enq(synthPending, "voices", voices)
    /\ lastSynthEvent' = SynthEvent("voicesChanged")
    /\ UNCHANGED <<synthSettings, isSpeaking, synthError, synthSupported, utterances>>
    /\ UNCHANGED <<availableVoices, cancelled, textToSpeak>>
    /\ UNCHANGED <<recVars, altVars>>

\* updateSettings of the synthesis hook
UpdateSynthSettings(newSettings) ==
    /\ SynthCanRun
    /\ synthPending' = Enq(synthPending, "settings", newSettings)
    /\ lastSynthEvent' = SynthEvent("updateSettings")
    /\ UNCHANGED <<synthSettings, isSpeaking, synthError, synthSupported, utterances>>
    /\ UNCHANGED <<availableVoices, cancelled, textToSpeak>>
    /\ UNCHANGED <<recVars, altVars>>

\* a render of the synthesis hook: the queued updates are applied
SynthRender ==
    /\ HasSynthPending
    /\ isSpeaking' = FlushedSpeaking
    /\ synthError' = FlushedSynthError
    /\ synthSettings' = FlushedSynthSettings
    /\ synthPending' = NoSynthPending
    /\ availableVoices' = FlushedVoices
    /\ UNCHANGED <<synthSupported, utterances, lastSynthEvent, cancelled, textToSpeak>>
    /\ UNCHANGED <<recVars, altVars>>

\* ---------------------------------------------------------------- the page, synthesis
\* texts the text area of the page may hold
PageTexts == { "", " ", "hi" }

\* values the synthesis controls of the settings panel can produce
PageSynthPartials == { [rate |-> 5], [rate |-> 20] }

\* String.prototype.trim on the texts of the page
TrimText(t) == IF t = " " THEN "" ELSE t

\* a Speak button that is enabled while an utterance is spoken
SpeakDisabledNotWhileSpeaking == TrimText(textToSpeak) = "" \/ synthError # ErrNull

\* disabled={isSpeaking || !textToSpeak.trim() || !!synthesisError}
SpeakDisabled == isSpeaking \/ TrimText(textToSpeak) = "" \/ synthError # ErrNull

\* disabled={!isSpeaking}
StopSpeakingDisabled == ~isSpeaking

\* the page shows what the hook returned at its last render; React renders the
\* updates of an event of the page before the next event of the page is handled
PageRendered == ~HasSynthPending

\* handleSpeak: if (textToSpeak.trim()) speak(textToSpeak)
HandleSpeak ==
    /\ TrimText(textToSpeak) # ""
    /\ SpeakWithin(textToSpeak, NoCustom, MaxUtterances + 1)

\* a click on the Speak button
ClickSpeak ==
    /\ PageRendered
    /\ ~SpeakDisabled
    /\ HandleSpeak

\* a click on the Stop Speaking button: onClick={stopSpeaking}
ClickStopSpeaking ==
    /\ PageRendered
    /\ ~StopSpeakingDisabled
    /\ StopSpeaking

\* onChange={(e) => setTextToSpeak(e.target.value)}
SetTextToSpeak(t) ==
    /\ PageRendered
    /\ t # textToSpeak
    /\ textToSpeak' = t
    /\ UNCHANGED <<synthSettings, isSpeaking, synthError, synthPending, synthSupported,
                   utterances, lastSynthEvent, availableVoices, cancelled>>
    /\ UNCHANGED <<recVars, altVars>>

\* the synthesis controls of the settings panel
ChangeSynthSetting(newSettings) ==
    /\ PageRendered
    /\ showSettings
    /\ \E f \in DOMAIN newSettings : synthSettings[f] # newSettings[f]
    /\ UpdateSynthSettings(newSettings)

SynthBrowserNotSupported ==
    Err("BrowserNotSupported", "Web Speech Synthesis API is not supported by your browser.")

\* the synthesis hook after its first render and effect
SynthHookInit ==
    /\ synthSettings = defaultSynthSettings
    /\ isSpeaking = FALSE
    /\ synthError = IF synthSupported THEN ErrNull ELSE SynthBrowserNotSupported
    /\ synthPending = NoSynthPending
    /\ utterances = <<>>
    /\ cancelled = 0
    /\ textToSpeak = InitialText
    /\ lastSynthEvent = SynthEvent("mount")

\* ---------------------------------------------------------------- specifications
\* the recognition hook after its first render and effect
HookInit ==
    /\ supported \in BOOLEAN
    /\ settings = defaultSettings
    /\ finalTranscript = Empty
    /\ interimTranscript = Empty
    /\ isListening = FALSE
    /\ error = IF supported THEN ErrNull ELSE BrowserNotSupported
    /\ recognitionRef = IF supported THEN 1 ELSE 0
    /\ latestInterimRef = Empty
    /\ pending = NoPending
    /\ transcript = HookTranscript(Empty, Empty)
    /\ showSettings = FALSE
    /\ status = [i \in Instances |-> IF supported /\ i = 1 THEN "idle" ELSE "none"]
    /\ stopRequested = [i \in Instances |-> FALSE]
    /\ config = [i \in Instances |-> defaultSettings]
    /\ results = [i \in Instances |-> <<>>]
    /\ resultIndex = [i \in Instances |-> 0]
    /\ batches = 0
    /\ nextInst = IF supported THEN 2 ELSE 1
    /\ commits = [i \in Instances |-> <<>>]
    /\ undisturbed = FALSE
    /\ lastEvent = NoEvent("mount")

AltInit == altRuns = <<>>

Init ==
    /\ HookInit
    /\ synthSupported = TRUE
    /\ availableVoices = NoVoices
    /\ SynthHookInit
    /\ AltInit

\* the synthesis hook, with or without a synthesis capability
SynthInit ==
    /\ supported = TRUE
    /\ HookInit
    /\ synthSupported \in BOOLEAN
    /\ availableVoices = NoVoices
    /\ SynthHookInit
    /\ AltInit

\* two runs of the recognition hook with their maxAlternatives settings
AltSpecInit ==
    /\ supported = TRUE
    /\ HookInit
    /\ synthSupported = TRUE
    /\ availableVoices = NoVoices
    /\ SynthHookInit
    /\ altRuns \in { << NewRun(m1), NewRun(m2) >> :
                        m1 \in MaxAlternativesChoices, m2 \in MaxAlternativesChoices }

\* both runs get batches of results with text
AltNext ==
    \/ AltOnStart
    \/ AltOnResult(Parts \ { <<WS>> }, MaxResults)

AltSpec == AltSpecInit /\ [][AltNext]_vars

SynthNext ==
    \/ \E text \in SynthTexts : \E custom \in SynthOverrides : Speak(text, custom)
    \/ StopSpeaking
    \/ OnUtteranceEnd
    \/ \E p \in SynthPartials : UpdateSynthSettings(p)
    \/ SynthRender

SynthSpec == SynthInit /\ [][SynthNext]_vars

\* partial settings and custom settings that choose a language, a voice and a rate
VoicePartials == { [lang |-> "es-ES"], [voiceName |-> "Luis"] }
VoiceOverrides == { NoCustom, [voiceName |-> "Anna"], [rate |-> 150] }

\* the synthesis hook and the voices of the capability
VoiceNext ==
    \/ \E text \in SynthTexts : \E custom \in VoiceOverrides : Speak(text, custom)
    \/ OnUtteranceEnd
    \/ \E voices \in VoiceLists : OnVoicesChanged(voices)
    \/ \E p \in VoicePartials : UpdateSynthSettings(p)
    \/ SynthRender

VoiceSpec == Init /\ [][VoiceNext]_vars

\* the synthesis hook on a capability that may report an error for an utterance
SynthErrorNext ==
    \/ SynthNext
    \/ \E code \in SynthErrorCodes : OnUtteranceError(code)

SynthErrorSpec == SynthInit /\ [][SynthErrorNext]_vars

\* the synthesis hook driven by the page, on a capability that reports the end or
\* the error of an utterance and reports a cancelled utterance with an error event
SynthPageNext ==
    \/ ClickSpeak
    \/ ClickStopSpeaking
    \/ \E t \in PageTexts : SetTextToSpeak(t)
    \/ ToggleShowSettings
    \/ \E p \in PageSynthPartials : ChangeSynthSetting(p)
    \/ SynthRender
    \/ OnUtteranceEnd
    \/ \E code \in SynthErrorCodes : OnUtteranceError(code)

SynthPageSpec == SynthInit /\ [][SynthPageNext]_vars

\* the page, and a speak request with empty text made by a caller of the hook
SynthRetriggerNext ==
    \/ SynthPageNext
    \/ Speak("", NoCustom)

SynthRetriggerSpec == SynthInit /\ [][SynthRetriggerNext]_vars

\* speak, stopSpeaking and the end callbacks of the utterances in every order, on a
\* capability whose queue takes a second utterance and which may deliver the end
\* event of a cancelled utterance after the call of cancel()
SynthQueueNext ==
    \/ SpeakWithin("hi", NoCustom, MaxUtterances + 1)
    \/ \E endEvents \in BOOLEAN : StopSpeakingOn(endEvents)
    \/ OnUtteranceEnd
    \/ OnCancelledUtteranceEnd
    \/ \E p \in SynthPartials : UpdateSynthSettings(p)
    \/ SynthRender

SynthQueueSpec == Init /\ [][SynthQueueNext]_vars

\* sessions and settings updates of the recognition hook, driven by any caller
SettingsNext ==
    \/ StartListening
    \/ StopListening
    \/ \E p \in Partials : UpdateSettings(p)
    \/ Render
    \/ \E i \in Instances : OnStart(i)
    \/ \E i \in Instances : \E atCall \in BOOLEAN : OnEnd(i, atCall)
    \/ \E i \in Instances : \E code \in ErrorCodes : \E msg \in ErrorMessages : OnError(i, code, msg)

SettingsSpec == Init /\ [][SettingsNext]_vars

\* the settings of both hooks, updated by any caller
MergeNext ==
    \/ \E p \in PagePartials : UpdateSettings(p)
    \/ Render
    \/ \E p \in SynthPartials : UpdateSynthSettings(p)
    \/ SynthRender

MergeSpec == Init /\ [][MergeNext]_vars

\* the notifications of the capability
Platform(parts, maxLen) ==
    \/ \E i \in Instances : OnStart(i)
    \/ \E i \in Instances : OnResult(i, parts, maxLen)
    \/ \E i \in Instances : \E atCall \in BOOLEAN : OnEnd(i, atCall)
    \/ \E i \in Instances : \E code \in ErrorCodes : \E msg \in ErrorMessages : OnError(i, code, msg)

\* the hook on one capability instance, driven by any caller
Next ==
    \/ StartListening
    \/ StopListening
    \/ Render
    \/ Platform(Parts, MaxResults)

Spec == Init /\ [][Next]_vars

\* the hook on a platform that may deliver batches after an error
LateNext ==
    \/ StartListening
    \/ StopListening
    \/ Render
    \/ Platform(Parts, MaxResults)
    \/ \E i \in Instances : OnLateResult(i, Parts, MaxResults)

LateSpec == Init /\ [][LateNext]_vars

\* the hook on a platform that may deliver a result without alternatives, as the
\* last result of the session
NoAlternativesNext ==
    \/ Next
    \/ \E i \in Instances : OnResultNoAlternatives(i, MaxResults)

NoAlternativesSpec == Init /\ [][NoAlternativesNext]_vars

\* the hook driven by the page
PageNext ==
    \/ ClickStartStop
    \/ ToggleShowSettings
    \/ \E p \in PagePartials : ChangeRecognitionSetting(p)
    \/ Render
    \/ Platform(PageParts, MaxResults - 1)

PageSpec == Init /\ [][PageNext]_vars

\* the end notification of a session stop() was called on
EndAfterStop == \E i \in Instances : \E atCall \in BOOLEAN : stopRequested[i] /\ OnEnd(i, atCall)

\* sessions and settings updates where React renders what is queued and the platform
\* delivers the end notification of a session whose stop() was called
LiveSpec == Init /\ [][SettingsNext]_vars /\ WF_vars(Render) /\ SF_vars(EndAfterStop)

\* ---------------------------------------------------------------- properties
IsPrefix(s, t) == Len(s) <= Len(t) /\ SubSeq(t, 1, Len(s)) = s

RECURSIVE Concat(_)
Concat(ss) == IF ss = <<>> THEN <<>> ELSE Head(ss) \o Concat(Tail(ss))

\* the alternative-0 transcripts of the non-final results res[k..], k counted from 0
NonFinalParts(res, k) ==
    LET range == SubSeq(res, k + 1, Len(res))
        nonFinal == SelectSeq(range, LAMBDA r : ~r.isFinal)
    IN [j \in 1..Len(nonFinal) |-> nonFinal[j].alts[1]]

AllFinal(res, k) == \A j \in (k + 1)..Len(res) : res[j].isFinal

\* C1: when the end notification is handled while the interim holder is non-empty,
\* the held text is appended to the final transcript exactly once, separated by a
\* space, and the interim transcript and the holder are empty afterwards
C1_EndAppendsInterimOnce ==
    [][(lastEvent'.type = "end" /\ HandlerStep /\ Truthy(latestInterimRef))
        => /\ FlushedFinal' = Trim(FlushedFinal \o <<WS>> \o latestInterimRef)
           /\ FlushedInterim' = Empty
           /\ latestInterimRef' = Empty]_vars

\* C2: whenever the hook is idle and rendered and no session runs on the platform,
\* the page's start control is enabled.  It is the only control that issues a start
\* request, and no other control of the page changes error or isListening, so a
\* start control that is disabled in such a state stays disabled
C2_RetriggerOffered ==
    (supported /\ ~isListening /\ ~HasPending /\ \A i \in Instances : ~Started(i))
        => ~StartStopDisabled

\* C3: a start request made while isListening is true stores the AlreadyListening
\* error, does not call start() and leaves the final transcript, the interim
\* transcript and the interim holder as they were
C3_StartWhileListeningRejected ==
    [][(lastEvent'.type = "startAlready" /\ HandlerStep)
        => /\ FlushedError'.error = "AlreadyListening"
           /\ UNCHANGED <<status, results, batches>>
           /\ FlushedFinal' = FlushedFinal
           /\ FlushedInterim' = FlushedInterim
           /\ UNCHANGED <<finalTranscript, interimTranscript, latestInterimRef>>]_vars

C3_Witness ==
    /\ lastEvent.type = "startAlready"
    /\ FlushedFinal # Empty
    /\ latestInterimRef # Empty

\* C4: at most one capability instance runs a session at any time
C4_AtMostOneSession == Cardinality({ i \in Instances : Started(i) }) <= 1

\* C5: after a result batch the interim transcript and the interim holder are the
\* trimmed concatenation of the alternative-0 transcripts of the non-final results
\* of that batch alone
C5_InterimIsLatestBatch ==
    lastEvent.type = "result" =>
        LET i == lastEvent.inst
            expected == Trim(Concat(NonFinalParts(results[i], resultIndex[i])))
        IN FlushedInterim = expected /\ latestInterimRef = expected

C5_Witness ==
    /\ lastEvent.type = "result"
    /\ resultIndex[lastEvent.inst] = 1
    /\ Len(results[lastEvent.inst]) = 2
    /\ results[lastEvent.inst][1] = [isFinal |-> FALSE, alts |-> << <<"hello">> >>]
    /\ ~results[lastEvent.inst][2].isFinal
    /\ FlushedInterim = <<"how are you">>

\* C6: after a batch whose results are all final the interim transcript and the
\* interim holder are empty
C6_AllFinalLeavesNoInterim ==
    (lastEvent.type = "result"
        /\ AllFinal(results[lastEvent.inst], resultIndex[lastEvent.inst]))
    => (FlushedInterim = Empty /\ latestInterimRef = Empty)

C6_Witness ==
    /\ lastEvent.type = "result"
    /\ batches = 2
    /\ Len(results[lastEvent.inst]) = 2
    /\ AllFinal(results[lastEvent.inst], 0)
    /\ ~HasPending

\* C7: every result batch extends the final transcript (the transcript before the
\* batch is a prefix of the transcript after it), and the final transcript is empty
\* after the started notification
C7_FinalAppendOnly ==
    /\ [](lastEvent.type = "start" => FlushedFinal = Empty)
    /\ [][(lastEvent'.type = "result" /\ HandlerStep)
            => IsPrefix(FlushedFinal, FlushedFinal')]_vars

C7_Witness ==
    /\ lastEvent.type = "result"
    /\ undisturbed
    /\ FlushedFinal = <<"hello", WS, "how are you">>
    /\ commits[lastEvent.inst] = <<1, 1>>

\* C8: no final result of the logical result sequence is added to the final
\* transcript more than once (a result of white space alone leaves no text to count),
\* and no result the interim transcript shows was added to the final transcript
C8_FinalCommittedOnce ==
    \A i \in Instances : \A j \in 1..Len(commits[i]) :
        /\ commits[i][j] <= 1 \/ Trim(results[i][j].alts[1]) = Empty
        /\ (lastEvent = [type |-> "result", inst |-> i]
              /\ j > resultIndex[i] /\ ~results[i][j].isFinal) => commits[i][j] = 0

\* C9: the transcript the hook returns is trim(finalTranscript + " " +
\* interimTranscript); after a session's first batch with the one final result
\* "hello" and its second batch with the one interim result "how are you" it is
\* "hello how are you"
C9_TranscriptIsTrimmedJoin ==
    /\ transcript = Trim(finalTranscript \o <<WS>> \o interimTranscript)
    /\ (/\ undisturbed
        /\ lastEvent.type = "result"
        /\ ~HasPending
        /\ results[lastEvent.inst] =
              << [isFinal |-> TRUE, alts |-> << <<"hello">> >>],
                 [isFinal |-> FALSE, alts |-> << <<"how are you">> >>] >>
        /\ resultIndex[lastEvent.inst] = 1
        /\ commits[lastEvent.inst] = <<1, 0>>)
       => transcript = <<"hello", WS, "how are you">>

C9_Witness ==
    /\ undisturbed
    /\ lastEvent.type = "result"
    /\ ~HasPending
    /\ resultIndex[lastEvent.inst] = 1
    /\ commits[lastEvent.inst] = <<1, 0>>
    /\ transcript = <<"hello", WS, "how are you">>

\* C10: an accepted start request and the started notification each leave the
\* final transcript, the interim transcript and the interim holder empty and the
\* error null
C10_StartResets ==
    lastEvent.type \in {"startAccepted", "start"} =>
        /\ FlushedFinal = Empty
        /\ FlushedInterim = Empty
        /\ latestInterimRef = Empty
        /\ FlushedError = ErrNull

C10_Witness ==
    /\ lastEvent.type = "startAccepted"
    /\ finalTranscript # Empty
    /\ error # ErrNull

\* C11: when the platform reports a recognition error, the state the hook commits has
\* isListening false, both transcripts and the interim holder empty, and an error
\* descriptor with the platform's code and its message, or the default message
\* when the platform gave none.
C11_ErrorClearsAndReports ==
    lastEvent.type = "error" =>
        /\ FlushedListening = FALSE
        /\ FlushedFinal = Empty /\ FlushedInterim = Empty /\ latestInterimRef = Empty
        /\ FlushedError.error = lastEvent.code
        /\ FlushedError.message =
              (IF lastEvent.message = "" THEN "An unknown speech recognition error occurred."
               ELSE lastEvent.message)

\* an error without a message arrived while final and interim text were on display
C11_Witness ==
    /\ lastEvent.type = "error" /\ lastEvent.message = ""
    /\ finalTranscript # Empty /\ interimTranscript # Empty /\ isListening
    /\ status[lastEvent.inst] = "errored"

\* the state a reported failure leaves: an error descriptor of the platform, not
\* listening, nothing in the transcript
Failed ==
    /\ FlushedError.error \in ErrorCodes
    /\ ~FlushedListening
    /\ HookTranscript(FlushedFinal, FlushedInterim) = Empty

StartRequests == {"startAccepted", "startThrew", "startAlready", "startNotInitialized"}

\* C12: once a recognition failure has been reported, the transcript stays empty,
\* isListening stays false and the error descriptor stays set until the next start
\* request, whatever the platform still delivers for the failed session (result
\* batches, the end notification).
C12_FailureIsTerminal ==
    [][(Failed /\ lastEvent'.type \notin StartRequests) => Failed']_vars

\* C13: without a recognition capability the hook never listens, the error
\* 'BrowserNotSupported' is set at initialization, and every start request only sets
\* the error 'NotInitialized': no session starts and the transcripts and the interim
\* holder stay as they were.
C13_UnavailableStaysIdle ==
    /\ [](~supported => /\ ~isListening /\ ~FlushedListening
                        /\ recognitionRef = 0
                        /\ \A i \in Instances : ~Started(i))
    /\ []((~supported /\ lastEvent.type = "mount") => error.error = "BrowserNotSupported")
    /\ [][(~supported /\ lastEvent'.type \in StartRequests /\ HandlerStep)
            => /\ lastEvent'.type = "startNotInitialized"
               /\ FlushedError'.error = "NotInitialized"
               /\ FlushedFinal' = FlushedFinal /\ FlushedInterim' = FlushedInterim
               /\ FlushedListening' = FlushedListening
               /\ UNCHANGED <<latestInterimRef, status, results>>]_vars

\* a start request was made without a capability
C13_Witness ==
    /\ ~supported /\ lastEvent.type = "startNotInitialized"
    /\ FlushedError.error = "NotInitialized" /\ error.error = "BrowserNotSupported"

\* the value of a range nearest to x
Nearest(lo, hi, x) == IF x < lo THEN lo ELSE IF x > hi THEN hi ELSE x

InRange(lo, hi, x) == x # NaN /\ lo <= x /\ x <= hi

\* C19: every utterance submitted to the synthesis capability has its rate in
\* [0.1, 10], its pitch in [0, 2] and its volume in [0, 1], whatever the stored settings
\* and the custom settings of the speak request: a value outside the range is replaced
\* by the nearest bound and a value inside is passed as it is.
C19_UtteranceInRange ==
    /\ [](\A j \in 1..Len(utterances) :
             /\ InRange(1, 100, utterances[j].rate)
             /\ InRange(0, 20, utterances[j].pitch)
             /\ InRange(0, 10, utterances[j].volume))
    /\ [][Len(utterances') > Len(utterances)
            => LET u == utterances'[Len(utterances')]
               IN /\ \E custom \in SynthOverrides : \A f \in DOMAIN synthSettings :
                        u.finalSettings[f] =
                            (IF f \in DOMAIN custom THEN custom[f] ELSE synthSettings[f])
                  /\ u.rate = Nearest(1, 100, u.finalSettings.rate)
                  /\ u.pitch = Nearest(0, 20, u.finalSettings.pitch)
                  /\ u.volume = Nearest(0, 10, u.finalSettings.volume)]_vars

\* an utterance was submitted with a stored rate above the range and a custom volume
\* below it
C19_Witness ==
    /\ utterances # <<>> /\ lastSynthEvent.type = "speak"
    /\ synthSettings.rate = 150 /\ utterances[Len(utterances)].finalSettings.volume = 0 - 5
    /\ utterances[Len(utterances)].rate = 100 /\ utterances[Len(utterances)].volume = 0

SpeakRequests == {"speak", "speakRejected", "speakThrew"}

\* C20: a speak request with empty text, or without a synthesis capability, submits
\* no utterance, leaves isSpeaking as it was and sets the error descriptor
\* 'UnsupportedOrNoText'.
C20_SpeakRejected ==
    [][(/\ lastSynthEvent'.type \in SpeakRequests
        /\ SynthHandlerStep
        /\ (lastSynthEvent'.text = "" \/ ~synthSupported))
        => /\ lastSynthEvent'.type = "speakRejected"
           /\ utterances' = utterances
           /\ isSpeaking' = isSpeaking /\ FlushedSpeaking' = FlushedSpeaking
           /\ FlushedSynthError'.error = "UnsupportedOrNoText"]_vars

\* a speak request with empty text was rejected while an utterance was being spoken
C20_Witness ==
    /\ lastSynthEvent.type = "speakRejected" /\ lastSynthEvent.text = ""
    /\ synthSupported /\ isSpeaking /\ utterances # <<>>
    /\ FlushedSynthError.error = "UnsupportedOrNoText"

\* C21: when the synthesis capability reports an error for an in-flight utterance,
\* the error is recovered: once the updates are applied isSpeaking is false and the
\* error descriptor holds the reported code.
C21_SynthErrorRecovered ==
    lastSynthEvent.type = "utteranceError"
        => /\ FlushedSpeaking = FALSE
           /\ FlushedSynthError.error = lastSynthEvent.code

\* C22: through the page no speak request is issued while isSpeaking is true or
\* while an utterance the application submitted is pending or speaking, so the
\* capability holds at most one utterance of the application at any time.
C22_NoSpeakWhileSpeaking ==
    /\ [](Len(utterances) <= 1)
    /\ [][(lastSynthEvent'.type \in SpeakRequests /\ SynthHandlerStep
            /\ synthPending' # synthPending)
            => /\ ~isSpeaking /\ ~FlushedSpeaking
               /\ utterances = <<>>]_vars

\* a second utterance was submitted through the page after the first one had ended
C22_Witness ==
    /\ lastSynthEvent.type = "speak" /\ Len(utterances) = 1
    /\ utterances[1].finalSettings.rate = 20
    /\ isSpeaking /\ textToSpeak = "hi" /\ ~HasSynthPending

\* a step of speak that submits an utterance
Submits == Len(utterances') = Len(utterances) + 1

VoicesOf(voices) == { voices[j] : j \in 1..Len(voices) }

\* C29: speak selects a voice only when it matches the language of the utterance:
\* with a voice name set, the voice is the available voice of that name and that
\* language if there is one and otherwise no voice is set; with no voice name, it is
\* the available default voice of that language if there is one and otherwise no
\* voice is set.  In every case the utterance is submitted, isSpeaking becomes true
\* and the error is cleared.
C29_VoiceMatchesLanguage ==
    [][(lastSynthEvent'.type \in SpeakRequests /\ SynthHandlerStep
        /\ synthPending' # synthPending /\ lastSynthEvent'.text # "")
        => /\ Submits
           /\ FlushedSpeaking' = TRUE
           /\ FlushedSynthError' = ErrNull
           /\ LET u == utterances'[Len(utterances')]
                  named == { v \in VoicesOf(availableVoices) :
                                v.name = u.finalSettings.voiceName /\ v.lang = u.lang }
                  defaults == { v \in VoicesOf(availableVoices) : v.lang = u.lang /\ v.default }
                  matching == IF u.finalSettings.voiceName # "" THEN named ELSE defaults
              IN IF matching = {} THEN u.voice = NoVoice ELSE u.voice \in matching]_vars

\* an utterance was submitted without a voice although a voice of the name of its
\* settings is available, in another language
C29_Witness ==
    /\ lastSynthEvent.type = "speak" /\ utterances # <<>>
    /\ utterances[Len(utterances)].finalSettings.voiceName = "Luis"
    /\ utterances[Len(utterances)].lang = "en-US"
    /\ \E v \in VoicesOf(availableVoices) : v.name = "Luis"
    /\ utterances[Len(utterances)].voice = NoVoice
    /\ FlushedSpeaking /\ FlushedSynthError = ErrNull

Trimmed(s) == s = Empty \/ (s[1] # WS /\ s[Len(s)] # WS)

\* C24: in every reachable state finalTranscript and interimTranscript have no
\* leading or trailing white space, before and after the queued updates are applied.
C24_TranscriptsTrimmed ==
    /\ Trimmed(finalTranscript) /\ Trimmed(interimTranscript)
    /\ Trimmed(FlushedFinal) /\ Trimmed(FlushedInterim)

\* a batch with a final text and an interim text of white space was rendered: the
\* final transcript lost the separator at its end and the interim transcript is empty
C24_Witness ==
    /\ finalTranscript = <<"hello">> /\ interimTranscript = Empty /\ ~HasPending
    /\ \E i \in Instances :
          /\ status[i] = "active" /\ Len(results[i]) = 2
          /\ results[i][1].isFinal
          /\ ~results[i][2].isFinal /\ results[i][2].alts[1] = <<WS>>

\* the alternative-0 transcripts of the final results of a list, in the order of the
\* list
FinalParts(res) ==
    LET final == SelectSeq(res, LAMBDA r : r.isFinal)
    IN [j \in 1..Len(final) |-> final[j].alts[1]]

\* the texts of a list joined by single spaces
RECURSIVE JoinBySpaces(_)
JoinBySpaces(ss) ==
    IF ss = <<>> THEN Empty
    ELSE IF Len(ss) = 1 THEN Head(ss)
    ELSE Head(ss) \o <<WS>> \o JoinBySpaces(Tail(ss))

\* every final result of the session of instance i was committed by exactly one
\* batch, and every final transcript is a word
CommittedOnceInOrder(i) ==
    /\ Len(commits[i]) = Len(results[i])
    /\ \A j \in 1..Len(results[i]) :
          /\ commits[i][j] = (IF results[i][j].isFinal THEN 1 ELSE 0)
          /\ results[i][j].isFinal => Trim(results[i][j].alts[1]) # Empty

\* C25: final results committed by different batches stay separated in the final
\* transcript: when the final alternative-0 transcripts of a session are words, each
\* committed once, the final transcript is these words in delivery order joined by
\* single spaces, whether they arrive in one batch or in several.
C25_FinalsJoinedBySpaces ==
    \A i \in Instances :
        (undisturbed /\ lastEvent = [type |-> "result", inst |-> i] /\ CommittedOnceInOrder(i))
            => FlushedFinal = JoinBySpaces(FinalParts(results[i]))

\* no session runs on the platform
Idle == \A i \in Instances : ~Started(i)

\* C26: after a session ends normally (an end notification without an error before
\* it) the text committed during the session is retained: the final transcript
\* before the end notification is kept, the transcript the hook returns is the final
\* transcript, and it stays as it is while no session runs, until the next start
\* request.
C26_TextRetainedAfterEnd ==
    /\ [][(lastEvent'.type = "end" /\ HandlerStep
            /\ status[lastEvent'.inst] \in {"active", "ending"})
            => /\ IsPrefix(FlushedFinal, FlushedFinal')
               /\ FlushedInterim' = Empty
               /\ HookTranscript(FlushedFinal', FlushedInterim') = FlushedFinal']_vars
    /\ []((Idle /\ ~HasPending) => transcript = finalTranscript)
    /\ [][(Idle /\ lastEvent'.type \notin StartRequests)
            => /\ FlushedFinal' = FlushedFinal
               /\ FlushedInterim' = FlushedInterim
               /\ ~HasPending => transcript' = transcript]_vars

\* a session that committed two final texts has ended and the text is displayed
C26_Witness ==
    /\ lastEvent.type = "end" /\ Idle /\ ~HasPending
    /\ ~isListening /\ error = ErrNull
    /\ transcript = <<"hello", WS, "how are you">> /\ finalTranscript = transcript

\* C30: processing a result batch never fails: for every batch, a batch with a
\* result without alternatives included, the result handler completes: it stores the
\* interim text of the batch in the interim transcript and in the interim holder,
\* keeps what the final transcript held and clears the error.
C30_ResultHandlerCompletes ==
    [][batches' = batches + 1
        => /\ lastEvent'.type = "result"
           /\ FlushedInterim' = latestInterimRef'
           /\ IsPrefix(FlushedFinal, FlushedFinal')
           /\ FlushedError' = ErrNull]_vars

\* C27: isSpeaking tracks the utterance in flight: whenever an utterance of the
\* latest speak request is pending or speaking at the capability, isSpeaking is true
\* once the queued updates are applied, whatever the order of speak, stopSpeaking and
\* the end callbacks, the end callback of a cancelled utterance included.
C27_SpeakingTracksUtterance == utterances # <<>> => FlushedSpeaking

\* C28: after a synthesis error descriptor has been set the page still offers a
\* re-trigger: when the error is set, nothing is spoken and the text area holds a
\* text, the Speak button is enabled.  It is the only control that makes a speak
\* request, and only speak clears the error, so a button disabled in such a state
\* stays disabled.
C28_SpeakRetriggerOffered ==
    (synthError # ErrNull /\ ~HasSynthPending /\ ~isSpeaking /\ TrimText(textToSpeak) # "")
        => ~SpeakDisabled

\* merging p into s twice gives what merging it once gives, and the fields p does not
\* name keep the values they have in s
MergeOnce(s, p) ==
    LET m == MergeSettings(s, p)
    IN /\ MergeSettings(m, p) = m
       /\ \A f \in DOMAIN s \ DOMAIN p : f \in DOMAIN m /\ m[f] = s[f]
       /\ \A f \in DOMAIN s \cap DOMAIN p : f \in DOMAIN m /\ m[f] = p[f]

\* C14: the settings merge is idempotent for the recognition and the synthesis
\* settings: for every settings value the hooks reach and every partial update,
\* updateSettings(p) applied twice gives the settings it gives applied once, and the
\* fields p does not name keep their values.
C14_MergeIdempotent ==
    /\ [](/\ \A p \in PagePartials : MergeOnce(settings, p)
          /\ \A p \in SynthPartials \cup SynthOverrides : MergeOnce(synthSettings, p))
    /\ [][Len(pending'.settings) > Len(pending.settings)
            => LET p == pending'.settings[Len(pending'.settings)]
               IN /\ FlushedSettings' = MergeSettings(FlushedSettings, p)
                  /\ ApplySettingsQueue(settings, pending.settings \o <<p, p>>)
                        = FlushedSettings']_vars
    /\ [][Len(synthPending'.settings) > Len(synthPending.settings)
            => LET p == synthPending'.settings[Len(synthPending'.settings)]
               IN /\ FlushedSynthSettings' = MergeSettings(FlushedSynthSettings, p)
                  /\ ApplySettingsQueue(synthSettings, synthPending.settings \o <<p, p>>)
                        = FlushedSynthSettings']_vars

\* the same partial was given a second time to both hooks: { lang: 'es-ES' } to the
\* recognition settings and { rate: 0.5 } to the synthesis settings
C14_Witness ==
    /\ settings.lang = "es-ES" /\ pending.settings = << [lang |-> "es-ES"] >>
    /\ synthSettings.rate = 5 /\ synthPending.settings = << [rate |-> 5] >>
    /\ synthSettings.pitch = 0 - 5 /\ settings.interimResults = FALSE

\* C15: the recognition settings never change while a session is active: every
\* settings update made through the page is made in a state where no session runs on
\* the platform, the window from a start request to the started notification and the
\* window from an error notification to the end notification included.
C15_SettingsFixedWhileActive ==
    [][Len(pending'.settings) > Len(pending.settings)
        => \A i \in Instances : ~Started(i)]_vars

\* C16: every session is started on the capability instance the hook holds, and that
\* instance is configured with the settings current at the start request; a settings
\* update configures the instance of the next session and never changes the
\* configuration of an instance a session runs on.
C16_SessionUsesCurrentSettings ==
    /\ [](recognitionRef # 0 => config[recognitionRef] = settings)
    /\ [][\A i \in Instances :
            /\ (status[i] # "starting" /\ status'[i] = "starting")
                  => (i = recognitionRef /\ config[i] = settings /\ config'[i] = settings)
            /\ (Started(i) /\ Started(i)') => config'[i] = config[i]]_vars

\* a session was started after the language was changed, on an instance configured
\* with the new language, while the replaced instance keeps its configuration
C16_Witness ==
    /\ lastEvent = [type |-> "startAccepted", inst |-> 2]
    /\ settings.lang = "es-ES" /\ config[2].lang = "es-ES" /\ config[1].lang = "en-US"
    /\ status[2] = "starting"

\* C17: from Listening, a stop request leads to Idle: when the platform delivers the
\* end notification after stop(), every state with isListening true in which
\* stopListening was called is followed by a state with isListening false.
C17_StopLeadsToIdle == (lastEvent.type = "stop" /\ isListening) ~> ~isListening

\* stopListening was called on an active session
C17_Witness ==
    /\ lastEvent.type = "stop" /\ isListening
    /\ recognitionRef # 0 /\ stopRequested[recognitionRef]
    /\ status[recognitionRef] = "active"

\* C18: the transcripts depend on alternative 0 of each result only: two runs that
\* get the same batches and differ in the alternatives after alternative 0, or in the
\* maxAlternatives setting, show the same finalTranscript, interimTranscript and
\* transcript in every state.
C18_OnlyAlternativeZero ==
    Len(altRuns) = 2 =>
        /\ altRuns[1].finalTranscript = altRuns[2].finalTranscript
        /\ altRuns[1].interimTranscript = altRuns[2].interimTranscript
        /\ altRuns[1].latestInterimRef = altRuns[2].latestInterimRef
        /\ altRuns[1].transcript = altRuns[2].transcript

\* the runs differ in maxAlternatives and in the alternatives of a final and of an
\* interim result they were given
C18_Witness ==
    /\ Len(altRuns) = 2
    /\ altRuns[1].maxAlternatives # altRuns[2].maxAlternatives
    /\ altRuns[1].results # altRuns[2].results
    /\ altRuns[1].finalTranscript # Empty /\ altRuns[1].interimTranscript # Empty
    /\ \E j \in 1..Len(altRuns[2].results) : Len(altRuns[2].results[j].alts) = 2
====
